---- MODULE Spec2Model ----
(***************************************************************************)
(* Model of vite-plugin-svelte's prebundling bridge:                       *)
(*   - esbuildSveltePlugin (src/utils/esbuild.ts): the onStart / onLoad /  *)
(*     onEnd callbacks, logProgress, logStats, compileSvelte, duration;    *)
(*   - vitePreprocess (src/preprocess.js): the script and style hooks.     *)
(* Strings the code inspects (file names, extensions) are tuples of atoms: *)
(* "/", ".", "?" and name parts, so that the regular expression, slice,    *)
(* startsWith and replace are modelled by what they do.  Times are integer *)
(* milliseconds read from one monotonic clock (performance.now()).         *)
(***************************************************************************)
EXTENDS Integers, Sequences, FiniteSets, TLC

VARIABLES
  host,             \* the host's workload: the files it may request, how the clock
                    \* may advance between two readings, and the bounds of the run
  hostPlugins,      \* build.initialOptions.plugins: the names of the host's plugins
  options,          \* ResolvedOptions: extensions, preprocess, dynamicCompileOptions
  now,              \* performance.now()
  ticks,            \* number of clock advances so far (bounded)
  passNo,           \* number of start events the host has fired
  phase,            \* host lifecycle: "init", "running", "ending", "ended"
  bundleStart,      \* let bundleStart: number
  lastProgressLog,  \* let lastProgressLog = 0
  stats,            \* const stats: FileStat[]
  loads,            \* the onLoad calls of the host, in request order; a call
                    \* that has returned keeps only its pass and its result
  last,             \* the onLoad call that returned most recently, in full
  log,              \* log.info.progress in this pass: the number of lines and
                    \* the last line
  packages,         \* logStats: const packages
  pending,          \* logStats: stats whose findClosestPkgJsonPath is awaited
  endResult,        \* how the last onEnd call completed
  report,           \* logStats: the groups and the table of the last report
  styleOpts,        \* viteStyle: the kind of its config argument, and whether
                    \* style.__resolvedConfig has been set by the embedding plugin
  transform,        \* viteStyle: let transform
  hookCalls,        \* the calls of the script and style hooks, in call order; a
                    \* call that has returned keeps only its result
  lastHook,         \* the hook call that returned most recently, in full
  resolveCalls,     \* number of calls of resolveConfig
  transformsMade,   \* number of calls of getCssTransformFn
  durationCall      \* a call of duration(timestamps, to, from): its arguments
                    \* and how it completed

pluginVars == <<host, hostPlugins, options, now, ticks, passNo, phase, bundleStart,
                lastProgressLog, stats, loads, last, log, packages, pending,
                endResult, report>>

preVars == <<styleOpts, transform, hookCalls, lastHook, resolveCalls, transformsMade>>

-----------------------------------------------------------------------------
(* Bounds of the model *)
MaxLoads == 2
MaxPasses == 2
ProgressMaxLoads == 2
ProgressMaxTicks == 2
ProgressMaxPasses == 2
ReportMaxStats == 3
PreMaxCalls == 2
TimedMaxLoads == 2
TimedMaxTicks == 2
DurationMaxLen == 3

(* Program constants *)
progressDelay == 2000
progressThrottle == 200
HumanMsLimit == 100

Undefined == "<undefined>"
NoTime == -1



-----------------------------------------------------------------------------
(* Strings as tuples of atoms *)

StartsWith(s, p) == Len(p) <= Len(s) /\ SubSeq(s, 1, Len(p)) = p

EndsWith(s, p) == Len(p) <= Len(s) /\ SubSeq(s, Len(s) - Len(p) + 1, Len(s)) = p

\* ext.slice(1)
Slice1(ext) == Tail(ext)

-----------------------------------------------------------------------------
(* The file system and the host's configuration *)

AppSvelte   == <<"/", "pkgA", "/", "App", ".", "svelte">>
InnerSvelte == <<"/", "pkgA", "/", "in", "/", "X", ".", "svelte">>
CardSvx     == <<"/", "pkgB", "/", "Card", ".", "svx">>
LoneSvelte  == <<"/", "tmp", "/", "Lone", ".", "svelte">>
QuerySvelte == <<"/", "pkgA", "/", "App", ".", "svelte", "?", "raw">>
UpperSvelte == <<"/", "pkgA", "/", "Up", ".", "SVELTE">>
BtnSvelte   == <<"/", "pkgA", "/", "Btn", ".", "svelte">>

Files == {AppSvelte, InnerSvelte, CardSvx, LoneSvelte, QuerySvelte, UpperSvelte}

\* the paths readFileSync can read
Readable == Files \ {QuerySvelte}

\* package.json files on disk, with the "name" field of each
ManifestName == [d \in {<<"/", "pkgA", "/">>, <<"/", "pkgA", "/", "in", "/">>,
                        <<"/", "pkgB", "/">>} |->
                   IF d = <<"/", "pkgA", "/">> THEN "a"
                   ELSE IF d = <<"/", "pkgB", "/">> THEN "b" ELSE "in"]

ManifestDirs == DOMAIN ManifestName

ExtSvelte == <<".", "svelte">>
ExtSvx == <<".", "svx">>

\* An optional value is a tuple of length 0 (undefined) or 1.
Some(x) == <<x>>
None == <<>>

DefaultOptions ==
  [extensions |-> None, preprocess |-> TRUE, dynamicCompileOptions |-> FALSE]

OptionSets ==
  { DefaultOptions,
    [extensions |-> Some(<<ExtSvelte, ExtSvx>>), preprocess |-> FALSE,
     dynamicCompileOptions |-> TRUE] }

\* the workloads of the specifications
LoadHost ==
  [files |-> Files, elapsed |-> {0}, compileTimes |-> {0},
   concurrent |-> TRUE, failures |-> TRUE,
   maxLoads |-> MaxLoads, maxTicks |-> 0, maxPasses |-> MaxPasses, maxHookCalls |-> 0]

ProgressHost ==
  [files |-> {AppSvelte},
   elapsed |-> {0, progressThrottle, progressThrottle + 1, progressDelay,
                progressDelay + 1},
   compileTimes |-> {0},
   concurrent |-> FALSE, failures |-> FALSE,
   maxLoads |-> ProgressMaxLoads, maxTicks |-> ProgressMaxTicks,
   maxPasses |-> ProgressMaxPasses, maxHookCalls |-> 0]

\* overlapping loads of files of one package and of a package nested in it,
\* whose compile() takes no or some time
TimedHost ==
  [files |-> {AppSvelte, BtnSvelte, InnerSvelte}, elapsed |-> {0}, compileTimes |-> {0, 60},
   concurrent |-> TRUE, failures |-> FALSE,
   maxLoads |-> TimedMaxLoads, maxTicks |-> TimedMaxTicks, maxPasses |-> 1,
   maxHookCalls |-> 0]

\* no build: only blocks handed to the script and style hooks
PreHost ==
  [files |-> {AppSvelte}, elapsed |-> {0}, compileTimes |-> {0},
   concurrent |-> TRUE, failures |-> TRUE,
   maxLoads |-> 0, maxTicks |-> 0, maxPasses |-> 0, maxHookCalls |-> PreMaxCalls]

PluginLists == { {"vite-plugin-svelte:facade"},
                 {"vite:dep-scan", "vite-plugin-svelte:facade"} }

-----------------------------------------------------------------------------
(* Pure helpers of esbuild.ts *)

\* timestamps.findIndex((t) => t.event === e), 1-based; 0 when absent
FindIndex(timestamps, e) ==
  IF \E i \in 1..Len(timestamps) : timestamps[i].event = e
  THEN CHOOSE i \in 1..Len(timestamps) :
         /\ timestamps[i].event = e
         /\ \A j \in 1..(i - 1) : timestamps[j].event # e
  ELSE 0

\* mutant: with "from" omitted the first entry is taken
durationSinceFirst(timestamps, to) ==
  LET toIndex == FindIndex(timestamps, to)
  IN timestamps[toIndex].ts - timestamps[1].ts

\* duration(timestamps, to) with "from" omitted: the entry before the to-event
duration(timestamps, to) ==
  LET toIndex == FindIndex(timestamps, to)
      fromIndex == toIndex - 1
  IN timestamps[toIndex].ts - timestamps[fromIndex].ts

\* duration(timestamps, to, from)
durationFrom(timestamps, to, from) ==
  LET toIndex == FindIndex(timestamps, to)
      fromIndex == FindIndex(timestamps, from)
  IN timestamps[toIndex].ts - timestamps[fromIndex].ts

\* Number.prototype.toFixed on num/den >= 0, as an integer count of the last digit
RoundDiv(num, den) == (2 * num + den) \div (2 * den)

\* humanDuration(num / den): "N.Nms" below 100, "N.NNs" otherwise
humanDuration(num, den) ==
  IF num < HumanMsLimit * den
  THEN [unit |-> "ms", tenths |-> RoundDiv(10 * num, den)]
  ELSE [unit |-> "s", hundredths |-> RoundDiv(num, 10 * den)]

\* (options.extensions ?? ['.svelte']).map((ext) => ext.slice(1))
svelteExtensions(opts) ==
  LET exts == IF opts.extensions = None THEN <<ExtSvelte>> ELSE opts.extensions[1]
  IN { Slice1(exts[i]) : i \in 1..Len(exts) }

\* mutant: the regular expression ignores case
svelteFilterIgnoreCase(opts, filename) ==
  LET lower(a) == IF a = "SVELTE" THEN "svelte" ELSE a
  IN \E i \in 1..Len(filename) : \E e \in svelteExtensions(opts) :
       /\ filename[i] = "."
       /\ i + Len(e) <= Len(filename)
       /\ [j \in 1..Len(e) |-> lower(filename[i + j])] = e
       /\ \/ i + Len(e) = Len(filename)
          \/ filename[i + Len(e) + 1] = "?"

\* new RegExp(`\\.(` + svelteExtensions.join('|') + `)(\\?.*)?$`).test(filename)
svelteFilter(opts, filename) ==
  \E i \in 1..Len(filename) : \E e \in svelteExtensions(opts) :
     /\ filename[i] = "."
     /\ i + Len(e) <= Len(filename)
     /\ SubSeq(filename, i + 1, i + Len(e)) = e
     /\ \/ i + Len(e) = Len(filename)
        \/ filename[i + Len(e) + 1] = "?"

\* mutant: the scanning plugin is looked up under another name
RegisteredWrongName == "vite:dep-scanner" \notin hostPlugins

\* build.initialOptions.plugins?.some((v) => v.name === 'vite:dep-scan'): setup
\* returns before registering any callback
Registered == "vite:dep-scan" \notin hostPlugins

\* mutant: the package.json of the outermost ancestor directory that has one
findOutermostPkgJsonPath(filename) ==
  LET dirs == { d \in ManifestDirs : StartsWith(filename, d) }
  IN IF dirs = {} THEN None
     ELSE Some((CHOOSE d \in dirs : \A o \in dirs : Len(d) <= Len(o))
               \o <<"package.json">>)

\* findClosestPkgJsonPath(filename): the package.json of the nearest ancestor
\* directory that has one, or undefined
findClosestPkgJsonPath(filename) ==
  LET dirs == { d \in ManifestDirs : StartsWith(filename, d) }
  IN IF dirs = {} THEN None
     ELSE Some((CHOOSE d \in dirs : \A o \in dirs : Len(o) <= Len(d))
               \o <<"package.json">>)

\* pkgPath.replace(/package.json$/, '')
StripManifest(pkgPath) ==
  IF EndsWith(pkgPath, <<"package.json">>)
  THEN SubSeq(pkgPath, 1, Len(pkgPath) - 1) ELSE pkgPath

\* JSON.parse(readFileSync(pkgPath, 'utf-8')).name
ReadManifestName(pkgPath) == ManifestName[StripManifest(pkgPath)]

\* packages.find((p) => stat.filename.startsWith(p.path))
FindPackage(pkgs, filename) ==
  IF \E i \in 1..Len(pkgs) : StartsWith(filename, pkgs[i].path)
  THEN Some(pkgs[CHOOSE i \in 1..Len(pkgs) :
                   /\ StartsWith(filename, pkgs[i].path)
                   /\ \A j \in 1..(i - 1) : ~StartsWith(filename, pkgs[j].path)])
  ELSE None

-----------------------------------------------------------------------------
(* logStats: grouping and the report *)

\* the property key of grouped[stat.packagename]: undefined becomes "undefined"
GroupKey(name) == IF name = Undefined THEN "undefined" ELSE name

\* mutant: the compile time of a group is overwritten, not accumulated
AddToGroupsOverwrites(groups, stat) ==
  LET hit == { i \in 1..Len(groups) : GroupKey(groups[i].name) = GroupKey(stat.packagename) }
      d == duration(stat.timestamps, "compiled")
  IN IF hit = {}
     THEN Append(groups, [name |-> stat.packagename, count |-> 1, compileTime |-> d])
     ELSE [i \in 1..Len(groups) |->
             IF i \in hit
             THEN [groups[i] EXCEPT !.count = @ + 1, !.compileTime = d]
             ELSE groups[i]]

\* one iteration of stats.forEach((stat) => {...}) over the groups in key order
AddToGroups(groups, stat) ==
  LET hit == { i \in 1..Len(groups) : GroupKey(groups[i].name) = GroupKey(stat.packagename) }
      d == duration(stat.timestamps, "compiled")
  IN IF hit = {}
     THEN Append(groups, [name |-> stat.packagename, count |-> 1, compileTime |-> d])
     ELSE [i \in 1..Len(groups) |->
             IF i \in hit
             THEN [groups[i] EXCEPT !.count = @ + 1, !.compileTime = @ + d]
             ELSE groups[i]]

\* Object.values(grouped) after the forEach
RECURSIVE Grouped(_)
Grouped(st) ==
  IF st = <<>> THEN <<>>
  ELSE AddToGroups(Grouped(SubSeq(st, 1, Len(st) - 1)), st[Len(st)])

\* insertion of g into a list sorted by (a, b) => b.count - a.count, after its equals
InsertByCount(sorted, g) ==
  LET k == Cardinality({ i \in 1..Len(sorted) : sorted[i].count >= g.count })
  IN SubSeq(sorted, 1, k) \o <<g>> \o SubSeq(sorted, k + 1, Len(sorted))

\* groups.sort((a, b) => b.count - a.count): stable, descending by count
RECURSIVE SortGroups(_)
SortGroups(groups) ==
  IF groups = <<>> THEN <<>>
  ELSE InsertByCount(SortGroups(SubSeq(groups, 1, Len(groups) - 1)), groups[Len(groups)])

\* statLines: the header row, then one row of cells per group
StatLines(groups) ==
  <<[library |-> "library", files |-> "files", time |-> "time", avg |-> "avg"]>> \o
  [i \in 1..Len(groups) |->
     [library |-> groups[i].name,
      files |-> groups[i].count,
      time |-> humanDuration(groups[i].compileTime, 1),
      avg |-> humanDuration(groups[i].compileTime, groups[i].count)]]

\* columnWidths reads cell.length of every cell: a TypeError on an undefined cell
WidthsThrow(statLines) == \E i \in 1..Len(statLines) : statLines[i].library = Undefined

-----------------------------------------------------------------------------
(* The plugin: state after setup(build) *)

\* the preprocessor returned by vitePreprocess(opts), before any block
PreInit(styles) ==
  /\ styleOpts \in styles
  /\ transform = None
  /\ hookCalls = <<>>
  /\ lastHook = None
  /\ resolveCalls = 0
  /\ transformsMade = 0

InlineStyle == [config |-> "inline", injected |-> FALSE]

PluginInit(h, plugins, opts) ==
  /\ host = h
  /\ hostPlugins \in plugins
  /\ options \in opts
  /\ now = 1
  /\ ticks = 0
  /\ passNo = 0
  /\ phase = "init"
  /\ bundleStart = NoTime
  /\ lastProgressLog = 0
  /\ stats = <<>>
  /\ loads = <<>>
  /\ last = None
  /\ log = [lines |-> 0, line |-> None]
  /\ packages = <<>>
  /\ pending = {}
  /\ endResult = "none"
  /\ report = None

InitWith(h, plugins, opts) ==
  /\ PreInit({InlineStyle})
  /\ PluginInit(h, plugins, opts)
  /\ durationCall = None

Init == InitWith(LoadHost, PluginLists, OptionSets)

\* performance.now() is monotonic: before a step reads the clock, d >= 0
\* milliseconds have passed since the previous step
Advance(d) ==
  /\ d = 0 \/ ticks < host.maxTicks
  /\ now' = now + d
  /\ ticks' = IF d = 0 THEN ticks ELSE ticks + 1

\* mutant: the first line of a pass is throttled like the later ones
ProgressDueNoDelay(done) ==
  LET base == IF lastProgressLog # 0 THEN lastProgressLog ELSE bundleStart
  IN done \/ (base # NoTime /\ now' - base > progressThrottle)

\* the condition of logProgress: done, or the delay / throttle has elapsed
ProgressDue(done) ==
  LET base == IF lastProgressLog # 0 THEN lastProgressLog ELSE bundleStart
      limit == IF lastProgressLog # 0 THEN progressThrottle ELSE progressDelay
  IN done \/ (base # NoTime /\ now' - base > limit)

\* logProgress(done)
logProgress(done) ==
  IF ProgressDue(done)
  THEN /\ lastProgressLog' = now'
       /\ log' = [lines |-> log.lines + 1,
                  line |-> Some([done |-> done, ts |-> now', files |-> Len(stats),
                                 duration |-> humanDuration(now' - bundleStart, 1)])]
  ELSE UNCHANGED <<lastProgressLog, log>>

\* a host that is not concurrent fires an event only when no load is in flight
HostMayCall == host.concurrent \/ \A i \in 1..Len(loads) : loads[i].pc = "done"

\* mutant: the throttle state survives the start of a pass
ResetPassKeepsProgress ==
  /\ stats' = <<>>
  /\ bundleStart' = now'
  /\ UNCHANGED lastProgressLog

\* the body of the onStart callback
ResetPass ==
  /\ stats' = <<>>
  /\ bundleStart' = now'
  /\ lastProgressLog' = 0

\* build.onStart
onStart(d) ==
  /\ passNo < host.maxPasses
  /\ phase # "ending"
  /\ HostMayCall
  /\ Advance(d)
  /\ passNo' = passNo + 1
  /\ phase' = "running"
  /\ IF Registered
     THEN /\ ResetPass
          /\ log' = [lines |-> 0, line |-> None]
          /\ endResult' = "none"
          /\ report' = None
     ELSE UNCHANGED <<stats, bundleStart, lastProgressLog, log, endResult, report>>
  /\ UNCHANGED <<preVars, durationCall, host, hostPlugins, options, loads, last, packages, pending>>

NewLoad(f, pc, result, read) ==
  [file |-> f, pass |-> passNo, pc |-> pc, result |-> result, read |-> read,
   hook |-> FALSE, compiler |-> FALSE, error |-> "", timestamps |-> <<>>,
   contents |-> <<>>, preprocessError |-> None]

\* what is kept of a call that has returned: the pass it returned in, its
\* result and what it called
Returned(l) ==
  [file |-> <<>>, pass |-> passNo, pc |-> "done", result |-> l.result, read |-> l.read,
   hook |-> l.hook, compiler |-> l.compiler, error |-> "", timestamps |-> <<>>,
   contents |-> <<>>, preprocessError |-> None]

\* call i returns to the host as l
Return(i, l) ==
  /\ loads' = IF i > Len(loads) THEN Append(loads, Returned(l))
              ELSE [loads EXCEPT ![i] = Returned(l)]
  /\ last' = Some([l EXCEPT !.pc = "done"] @@ [id |-> i])

\* build.onLoad, up to its first suspension: the filter, logProgress, readFileSync
\* and the start of compileSvelte
onLoad(f, d) ==
  /\ phase = "running"
  /\ Len(loads) < host.maxLoads
  /\ HostMayCall
  /\ IF Registered /\ svelteFilter(options, f)
     THEN /\ Advance(d)
          /\ logProgress(FALSE)
          /\ IF f \in Readable
             THEN /\ loads' = Append(loads,
                       NewLoad(f, IF options.preprocess THEN "preprocess" ELSE "dynamic",
                               "pending", TRUE))
                  /\ UNCHANGED last
             ELSE Return(Len(loads) + 1,
                         [NewLoad(f, "done", "thrown", TRUE) EXCEPT !.error = "read"])
     ELSE /\ d = 0
          /\ Return(Len(loads) + 1, NewLoad(f, "done", "none", FALSE))
          /\ UNCHANGED <<now, ticks, lastProgressLog, log>>
  /\ UNCHANGED <<preVars, durationCall, host, hostPlugins, options, passNo, phase, bundleStart, stats,
                 packages, pending, endResult, report>>

\* mutant: the stat is pushed although the compile step threw
CatchPushes(i, l) ==
  /\ Return(i, [l EXCEPT !.result = "errors"])
  /\ stats' = Append(stats, [id |-> i, pass |-> l.pass, filename |-> l.file,
                             packagename |-> Undefined, timestamps |-> l.timestamps])

\* build.onLoad: catch (e) { return { errors: [toESBuildError(e, options)] } }
Catch(i, l) ==
  /\ Return(i, [l EXCEPT !.result = "errors"])
  /\ UNCHANGED stats

\* the Error object a failing preprocessor throws for a file: its identity and
\* its message, which may be empty
PreprocessError(f) ==
  [ref |-> <<"Error", f>>,
   message |-> IF f[Len(f) - 2] = "App" THEN <<>> ELSE <<"Unexpected token">>]

\* mutant: the file is named after the message
AnnotateAfterMessage(e, filename) ==
  [e EXCEPT !.message = @ \o <<" while preprocessing ">> \o filename]

\* e.message = `Error while preprocessing ${filename}${e.message ? ` - ${e.message}` : ''}`
Annotate(e, filename) ==
  [e EXCEPT !.message = <<"Error while preprocessing ">> \o filename \o
                        (IF @ # <<>> THEN <<" - ">> \o @ ELSE <<>>)]

\* compileSvelte: await preprocess(...) settles; a throw is annotated, rethrown
\* and caught by onLoad
preprocessSettles(i, ok) ==
  /\ i \in 1..Len(loads)
  /\ loads[i].pc = "preprocess"
  /\ ok \/ host.failures
  /\ IF ok
     THEN /\ loads' = [loads EXCEPT ![i].pc = "dynamic"]
          /\ UNCHANGED <<last, stats>>
     ELSE Catch(i, [loads[i] EXCEPT !.error = "preprocess",
                      !.preprocessError =
                         Some(Annotate(PreprocessError(loads[i].file), loads[i].file))])
  /\ UNCHANGED <<preVars, durationCall, host, hostPlugins, options, now, ticks, passNo, phase, bundleStart,
                 lastProgressLog, log, packages, pending, endResult, report>>

\* compile(finalCode, finalCompileOptions).js: the code the compiler emits for a
\* file, which may or may not end in a line break, and the data URL of its map
Compiled(f) ==
  [code |-> <<"export default ", f[Len(f) - 2], ";">> \o
            (IF f[Len(f)] = "svx" THEN <<"\n">> ELSE <<>>),
   mapUrl |-> <<"data:application/json;charset=utf-8;base64,", f[Len(f) - 2]>>]

\* the text compileSvelte returns
CompiledText(compiled) == compiled.code \o <<"//# sourceMappingURL=">> \o compiled.mapUrl

\* what the rest of compileSvelte can do
Outcomes == {"returns", "hookThrows", "compileThrows"}

\* mutant: 'compiled' is recorded before 'compileStart'
TakeTimestampsReversed(compileStart, d) ==
  <<[event |-> "compiled", ts |-> compileStart + d],
    [event |-> "compileStart", ts |-> compileStart]>>

\* the two calls of takeTimestamp around compile(), which runs for d milliseconds
TakeTimestamps(compileStart, d) ==
  <<[event |-> "compileStart", ts |-> compileStart],
    [event |-> "compiled", ts |-> compileStart + d]>>

\* compileSvelte resumes after await dynamicCompileOptions?.(...): the hook's
\* result or throw, takeTimestamp('compileStart'), the synchronous compile(),
\* takeTimestamp('compiled'); a throw is caught by onLoad
compileSvelteResumes(i, outcome, d) ==
  /\ i \in 1..Len(loads)
  /\ loads[i].pc = "dynamic"
  /\ outcome = "returns" \/ host.failures
  /\ outcome = "hookThrows" => options.dynamicCompileOptions
  /\ IF outcome = "hookThrows"
     THEN /\ d = 0
          /\ UNCHANGED <<now, ticks>>
          /\ Catch(i, [loads[i] EXCEPT !.hook = TRUE, !.error = "dynamic"])
     ELSE /\ Advance(d)
          /\ IF outcome = "returns"
             THEN /\ loads' = [loads EXCEPT ![i] =
                       [@ EXCEPT !.pc = "compiled",
                                 !.hook = options.dynamicCompileOptions,
                                 !.compiler = TRUE,
                                 !.timestamps = TakeTimestamps(now, d),
                                 !.contents = CompiledText(Compiled(loads[i].file))]]
                  /\ UNCHANGED <<last, stats>>
             ELSE Catch(i, [loads[i] EXCEPT !.hook = options.dynamicCompileOptions,
                                           !.compiler = TRUE, !.error = "compile"])
  /\ UNCHANGED <<preVars, durationCall, host, hostPlugins, options, passNo, phase, bundleStart,
                 lastProgressLog, log, packages, pending, endResult, report>>

\* mutant: the stat takes the place of the last one
PushStatReplacesLast(i) ==
  LET stat == [id |-> i, pass |-> loads[i].pass, filename |-> loads[i].file,
               packagename |-> Undefined, timestamps |-> loads[i].timestamps]
  IN IF stats = <<>> THEN <<stat>> ELSE [stats EXCEPT ![Len(stats)] = stat]

\* stats.push({ filename, timestamps })
PushStat(i) ==
  Append(stats, [id |-> i, pass |-> loads[i].pass, filename |-> loads[i].file,
                 packagename |-> Undefined, timestamps |-> loads[i].timestamps])

\* build.onLoad resumes after await compileSvelte(...): push the stat, return contents
onLoadResumes(i) ==
  /\ i \in 1..Len(loads)
  /\ loads[i].pc = "compiled"
  /\ stats' = PushStat(i)
  /\ Return(i, [loads[i] EXCEPT !.result = "contents"])
  /\ UNCHANGED <<preVars, durationCall, host, hostPlugins, options, now, ticks, passNo, phase, bundleStart,
                 lastProgressLog, log, packages, pending, endResult, report>>

\* mutant: one compiled component is enough to report
ShouldReportOne == lastProgressLog > 0 \/ Len(stats) > 0

\* the condition of build.onEnd
ShouldReport == lastProgressLog > 0 \/ Len(stats) > 1

\* the stats whose packages.find(...) misses and that await findClosestPkgJsonPath
NeedLookup(pkgs) ==
  { stats[k].id : k \in { j \in 1..Len(stats) : FindPackage(pkgs, stats[j].filename) = None } }

\* build.onEnd up to the await inside logStats: logProgress(true), then every
\* callback of stats.map runs up to its await while packages is still empty
onEnd(d) ==
  /\ phase = "running"
  /\ HostMayCall
  /\ IF Registered /\ ShouldReport
     THEN /\ Advance(d)
          /\ logProgress(TRUE)
          /\ packages' = <<>>
          /\ pending' = NeedLookup(<<>>)
          /\ phase' = "ending"
          /\ UNCHANGED endResult
     ELSE /\ d = 0
          /\ phase' = "ended"
          /\ endResult' = IF Registered THEN "quiet" ELSE endResult
          /\ UNCHANGED <<now, ticks, lastProgressLog, log, packages, pending>>
  /\ UNCHANGED <<preVars, durationCall, host, hostPlugins, options, passNo, bundleStart, stats, loads, last, report>>

\* the stat object a callback of stats.map holds
StatOf(id) == stats[CHOOSE k \in 1..Len(stats) : stats[k].id = id]

\* logStats: one stat's await findClosestPkgJsonPath(stat.filename) settles
resolvePackage(id) ==
  /\ phase = "ending"
  /\ id \in pending
  /\ pending' = pending \ {id}
  /\ LET pkgPath == findClosestPkgJsonPath(StatOf(id).filename)
     IN IF pkgPath # None
        THEN LET pkg == [name |-> ReadManifestName(pkgPath[1]),
                         path |-> StripManifest(pkgPath[1])]
             IN /\ packages' = Append(packages, pkg)
                /\ stats' = [k \in 1..Len(stats) |->
                               IF stats[k].id = id
                               THEN [stats[k] EXCEPT !.packagename = pkg.name]
                               ELSE stats[k]]
        ELSE UNCHANGED <<packages, stats>>
  /\ UNCHANGED <<preVars, durationCall, host, hostPlugins, options, now, ticks, passNo, phase, bundleStart,
                 lastProgressLog, loads, last, log, endResult, report>>

\* logStats after Promise.all: group, sort, render and log the table
logStatsFinishes ==
  /\ phase = "ending"
  /\ pending = {}
  /\ phase' = "ended"
  /\ LET groups == SortGroups(Grouped(stats))
         statLines == StatLines(groups)
     IN IF WidthsThrow(statLines)
        THEN /\ endResult' = "thrown"
             /\ UNCHANGED report
        ELSE /\ endResult' = "logged"
             /\ report' = Some([groups |-> groups, table |-> statLines, of |-> stats])
  /\ UNCHANGED <<preVars, durationCall, host, hostPlugins, options, now, ticks, passNo, bundleStart,
                 lastProgressLog, stats, loads, last, log, packages, pending>>

Next ==
  \/ \E d \in host.elapsed : onStart(d)
  \/ \E f \in host.files, d \in host.elapsed : onLoad(f, d)
  \/ \E i \in 1..Len(loads), ok \in BOOLEAN : preprocessSettles(i, ok)
  \/ \E i \in 1..Len(loads), o \in Outcomes, d \in host.compileTimes :
        compileSvelteResumes(i, o, d)
  \/ \E i \in 1..Len(loads) : onLoadResumes(i)
  \/ \E d \in host.elapsed : onEnd(d)
  \/ \E id \in pending : resolvePackage(id)
  \/ logStatsFinishes

vars == <<pluginVars, preVars, durationCall>>

\* concurrent loads of any files, which may fail; two option sets; scanning or
\* not; the clock stands still
Spec == Init /\ [][Next]_vars

\* one load at a time of one component file, the clock advancing by amounts
\* around the two thresholds of logProgress
InitProgress == InitWith(ProgressHost, {{"vite-plugin-svelte:facade"}}, {DefaultOptions})

SpecProgress == InitProgress /\ [][Next]_vars

\* one pass of overlapping loads, the clock advancing while compile() runs
InitTimed == InitWith(TimedHost, {{"vite-plugin-svelte:facade"}}, {DefaultOptions})

SpecTimed == InitTimed /\ [][Next]_vars

-----------------------------------------------------------------------------
(* logStats on any list of stats: the state in which Promise.all has settled,
   for every list of up to ReportMaxStats files compiled one after the other *)

ReportFiles == {AppSvelte, CardSvx, LoneSvelte}
ReportTimes == {0, 60, 250}

\* packagename as the callbacks of stats.map leave it
ResolvedName(f) ==
  IF findClosestPkgJsonPath(f) = None THEN Undefined
  ELSE ReadManifestName(findClosestPkgJsonPath(f)[1])

RECURSIVE TimeBefore(_, _)
TimeBefore(in, k) == IF k = 1 THEN 1 ELSE TimeBefore(in, k - 1) + in[k - 1][2]

StatsOf(in) ==
  [k \in 1..Len(in) |->
     [id |-> k, pass |-> 1, filename |-> in[k][1], packagename |-> ResolvedName(in[k][1]),
      timestamps |-> TakeTimestamps(TimeBefore(in, k), in[k][2])]]

InitReport ==
  \E n \in 1..ReportMaxStats : \E in \in [1..n -> ReportFiles \X ReportTimes] :
    LET end == TimeBefore(in, n) + in[n][2]
        done == [file |-> in[n][1], pass |-> 1, pc |-> "done", result |-> "contents",
                 read |-> TRUE, hook |-> FALSE, compiler |-> TRUE, error |-> "",
                 timestamps |-> StatsOf(in)[n].timestamps,
                 contents |-> CompiledText(Compiled(in[n][1])),
                 preprocessError |-> None]
    IN /\ PreInit({InlineStyle})
       /\ host = [files |-> ReportFiles, elapsed |-> {0}, compileTimes |-> ReportTimes,
                  concurrent |-> FALSE, failures |-> FALSE,
                  maxLoads |-> n, maxTicks |-> n, maxPasses |-> 1, maxHookCalls |-> 0]
       /\ hostPlugins = {"vite-plugin-svelte:facade"}
       /\ options = DefaultOptions
       /\ now = end
       /\ ticks = Cardinality({ k \in 1..n : in[k][2] # 0 })
       /\ passNo = 1
       /\ phase = "ending"
       /\ bundleStart = 1
       /\ lastProgressLog = end
       /\ stats = StatsOf(in)
       /\ loads = [k \in 1..n |-> [done EXCEPT !.file = <<>>, !.timestamps = <<>>,
                                                !.contents = <<>>]]
       /\ last = Some(done @@ [id |-> n])
       /\ log = [lines |-> 1,
                 line |-> Some([done |-> TRUE, ts |-> end, files |-> n,
                                duration |-> humanDuration(end - 1, 1)])]
       /\ packages = [j \in 1..Cardinality({ k \in 1..n : ResolvedName(in[k][1]) # Undefined }) |->
                        LET k == CHOOSE x \in 1..n :
                                   /\ ResolvedName(in[x][1]) # Undefined
                                   /\ Cardinality({ y \in 1..x : ResolvedName(in[y][1]) # Undefined }) = j
                            pkgPath == findClosestPkgJsonPath(in[k][1])[1]
                        IN [name |-> ReadManifestName(pkgPath), path |-> StripManifest(pkgPath)]]
       /\ pending = {}
       /\ endResult = "none"
       /\ report = None
       /\ durationCall = None

NextReport == logStatsFinishes

SpecReport == InitReport /\ [][NextReport]_vars

-----------------------------------------------------------------------------
(* preprocess.js: the script and style hooks of vitePreprocess *)

supportedStyleLangs == {"css", "less", "sass", "scss", "styl", "stylus", "postcss", "sss"}
supportedScriptLangs == {"ts"}
lang_sep == ".vite-preprocess."

\* the lang attributes a block may carry; Undefined is a block without one
Langs == supportedStyleLangs \cup supportedScriptLangs \cup {"js", Undefined}

\* mutant: both hooks test the lang attribute against the style list
SupportedStyleOnly(hook, lang) == lang \in supportedStyleLangs

\* supportedScriptLangs.includes(lang) / supportedStyleLangs.includes(lang)
Supported(hook, lang) ==
  IF hook = "script" THEN lang \in supportedScriptLangs ELSE lang \in supportedStyleLangs

VarsScss == <<"/", "pkgA", "/", "vars", ".", "scss">>

\* `${lang_sep}${lang}` and `${filename}${suffix}`
Suffix(lang) == <<lang_sep, lang>>
ModuleId(filename, lang) == filename \o Suffix(lang)

\* what preprocessCSS may report as deps of module id: undefined or a set
DepsChoices(id, lang) ==
  { None, Some({}), Some({VarsScss, id}), Some({VarsScss, VarsScss \o Suffix(lang)}),
    Some({VarsScss, VarsScss \o Suffix(IF lang = "css" THEN "scss" ELSE "css")}) }

NewHook(hook, lang, filename) ==
  [hook |-> hook, lang |-> lang, filename |-> filename, pc |-> "done",
   result |-> "pending", transformed |-> FALSE, resolving |-> FALSE,
   moduleId |-> <<>>, deps |-> None, dependencies |-> None]

\* what is kept of a hook call that has returned
HookReturned(c) ==
  [NewHook(c.hook, Undefined, <<>>) EXCEPT !.result = c.result]

\* hook call i returns to its caller as c
HookReturn(i, c) ==
  /\ hookCalls' = IF i > Len(hookCalls) THEN Append(hookCalls, HookReturned(c))
                  ELSE [hookCalls EXCEPT ![i] = HookReturned(c)]
  /\ lastHook' = Some([c EXCEPT !.pc = "done"] @@ [id |-> i])

\* viteScript().script up to await transformWithEsbuild(...)
scriptCall(lang, filename) ==
  /\ Len(hookCalls) < host.maxHookCalls
  /\ IF Supported("script", lang)
     THEN /\ hookCalls' = Append(hookCalls,
               [NewHook("script", lang, filename) EXCEPT !.pc = "transform",
                                                         !.transformed = TRUE])
          /\ UNCHANGED lastHook
     ELSE HookReturn(Len(hookCalls) + 1,
                     [NewHook("script", lang, filename) EXCEPT !.result = "undefined"])
  /\ UNCHANGED <<pluginVars, durationCall, styleOpts, transform, resolveCalls, transformsMade>>

\* transformWithEsbuild settles: return { code, map } or the throw propagates
scriptSettles(i, ok) ==
  /\ i \in 1..Len(hookCalls)
  /\ hookCalls[i].hook = "script" /\ hookCalls[i].pc = "transform"
  /\ ok \/ host.failures
  /\ HookReturn(i, [hookCalls[i] EXCEPT !.result = IF ok THEN "code" ELSE "thrown"])
  /\ UNCHANGED <<pluginVars, durationCall, styleOpts, transform, resolveCalls, transformsMade>>

\* the call of transform(content, moduleId) of a style call
InvokeTransform(c) ==
  [c EXCEPT !.pc = "transform", !.transformed = TRUE,
            !.moduleId = ModuleId(c.filename, c.lang)]

\* viteStyle(config).style up to its first await: resolveConfig(...) when no
\* transform exists and no resolved config is at hand, else transform(...)
styleCall(lang, filename) ==
  /\ Len(hookCalls) < host.maxHookCalls
  /\ LET c == NewHook("style", lang, filename)
     IN IF ~Supported("style", lang)
        THEN /\ HookReturn(Len(hookCalls) + 1, [c EXCEPT !.result = "undefined"])
             /\ UNCHANGED <<transform, resolveCalls, transformsMade>>
        ELSE IF transform # None
        THEN /\ hookCalls' = Append(hookCalls, InvokeTransform(c))
             /\ UNCHANGED <<lastHook, transform, resolveCalls, transformsMade>>
        ELSE IF styleOpts.injected \/ styleOpts.config = "resolved"
        THEN /\ transform' = Some(IF styleOpts.injected THEN "injected" ELSE "config")
             /\ transformsMade' = transformsMade + 1
             /\ hookCalls' = Append(hookCalls, InvokeTransform(c))
             /\ UNCHANGED <<lastHook, resolveCalls>>
        ELSE /\ resolveCalls' = resolveCalls + 1
             /\ hookCalls' = Append(hookCalls,
                  [c EXCEPT !.pc = "resolveConfig", !.resolving = TRUE])
             /\ UNCHANGED <<lastHook, transform, transformsMade>>
  /\ UNCHANGED <<pluginVars, durationCall, styleOpts>>

\* await resolveConfig(...) settles: transform = getCssTransformFn(resolvedConfig)
\* and transform(content, moduleId) is called, or the throw propagates
resolveConfigSettles(i, ok) ==
  /\ i \in 1..Len(hookCalls)
  /\ hookCalls[i].pc = "resolveConfig"
  /\ ok \/ host.failures
  /\ IF ok
     THEN /\ transform' = Some("inline")
          /\ transformsMade' = transformsMade + 1
          /\ hookCalls' = [hookCalls EXCEPT ![i] = InvokeTransform(@)]
          /\ UNCHANGED lastHook
     ELSE /\ HookReturn(i, [hookCalls[i] EXCEPT !.result = "thrown"])
          /\ UNCHANGED <<transform, transformsMade>>
  /\ UNCHANGED <<pluginVars, durationCall, styleOpts, resolveCalls>>

\* mutant: the dependencies are returned as reported
DependenciesUnfiltered(deps, suffix) == deps

\* deps ? Array.from(deps).filter((d) => !d.endsWith(suffix)) : undefined
Dependencies(deps, suffix) ==
  IF deps = None THEN None ELSE Some({ d \in deps[1] : ~EndsWith(d, suffix) })

\* await transform(content, moduleId) settles: return { code, map, dependencies }
\* or the throw propagates
styleSettles(i, ok, deps) ==
  /\ i \in 1..Len(hookCalls)
  /\ hookCalls[i].hook = "style" /\ hookCalls[i].pc = "transform"
  /\ ok \/ host.failures
  /\ deps \in DepsChoices(hookCalls[i].moduleId, hookCalls[i].lang)
  /\ ok \/ deps = None
  /\ HookReturn(i, IF ok
                   THEN [hookCalls[i] EXCEPT !.result = "code", !.deps = deps,
                           !.dependencies = Dependencies(deps, Suffix(hookCalls[i].lang))]
                   ELSE [hookCalls[i] EXCEPT !.result = "thrown"])
  /\ UNCHANGED <<pluginVars, durationCall, styleOpts, transform, resolveCalls, transformsMade>>

AllDeps == { None, Some({}) } \cup
           { Some({VarsScss, ModuleId(AppSvelte, l)}) : l \in supportedStyleLangs } \cup
           { Some({VarsScss, VarsScss \o Suffix(l)}) : l \in supportedStyleLangs }

NextPre ==
  \/ \E lang \in Langs, f \in host.files : scriptCall(lang, f)
  \/ \E i \in 1..Len(hookCalls), ok \in BOOLEAN : scriptSettles(i, ok)
  \/ \E lang \in Langs, f \in host.files : styleCall(lang, f)
  \/ \E i \in 1..Len(hookCalls), ok \in BOOLEAN : resolveConfigSettles(i, ok)
  \/ \E i \in 1..Len(hookCalls), ok \in BOOLEAN, deps \in AllDeps : styleSettles(i, ok, deps)

StyleOptions == [config : {"inline", "resolved"}, injected : BOOLEAN]

InitPre ==
  /\ PreInit(StyleOptions)
  /\ PluginInit(PreHost, {{"vite-plugin-svelte:facade"}}, {DefaultOptions})
  /\ durationCall = None

\* concurrent calls of the two hooks with any lang attribute; transforms and
\* resolveConfig may throw
SpecPre == InitPre /\ [][NextPre]_vars

-----------------------------------------------------------------------------
(* duration(timestamps, to, from) on any list of up to DurationMaxLen events *)

EventLabels == {"compileStart", "compiled", "preprocessed"}
EventTimes == {0, 5}

\* from ? ... : ...: an omitted argument is falsy, and so is the empty string
Truthy(from) == from # Undefined /\ from # ""

\* timestamps[toIndex] or timestamps[fromIndex] is undefined: reading .ts of it
\* is a TypeError
DurationThrows(timestamps, to, from) ==
  \/ FindIndex(timestamps, to) = 0
  \/ IF Truthy(from) THEN FindIndex(timestamps, from) = 0
     ELSE FindIndex(timestamps, to) - 1 = 0

\* the call of duration returns or throws
durationReturns ==
  /\ durationCall # None
  /\ durationCall[1].pc = "called"
  /\ LET c == durationCall[1]
     IN durationCall' =
          IF DurationThrows(c.timestamps, c.to, c.from)
          THEN Some([c EXCEPT !.pc = "thrown"])
          ELSE Some([c EXCEPT !.pc = "returned",
                              !.result = IF Truthy(c.from)
                                         THEN durationFrom(c.timestamps, c.to, c.from)
                                         ELSE duration(c.timestamps, c.to)])
  /\ UNCHANGED <<pluginVars, preVars>>

InitDuration ==
  /\ PreInit({InlineStyle})
  /\ \E n \in 1..DurationMaxLen :
       \E timestamps \in [1..n -> [event : EventLabels, ts : EventTimes]] :
         \E to \in EventLabels, from \in EventLabels \cup {Undefined} :
            /\ PluginInit(PreHost, {{"vite-plugin-svelte:facade"}}, {DefaultOptions})
            /\ durationCall = Some([timestamps |-> timestamps, to |-> to, from |-> from,
                                    pc |-> "called", result |-> 0])

NextDuration == durationReturns

SpecDuration == InitDuration /\ [][NextDuration]_vars

-----------------------------------------------------------------------------
(* Properties *)

\* the step in which call i of onLoad has its compile step throw: preprocess,
\* the dynamic-options hook or the compiler
CompileStepThrows(i) ==
  \/ preprocessSettles(i, FALSE)
  \/ compileSvelteResumes(i, "hookThrows", 0)
  \/ \E d \in host.compileTimes : compileSvelteResumes(i, "compileThrows", d)

\* C1: an onLoad call whose compile step throws returns an error result
\* instead of code, and stats is the same after the call's last step as before
\* it: no FileStat is added for that file.
C1_FailedCompileLeavesStats ==
  [][\A i \in 1..Len(loads) :
        CompileStepThrows(i) =>
          /\ loads'[i].pc = "done" /\ loads'[i].result = "errors"
          /\ stats' = stats
          /\ \A k \in 1..Len(stats') : stats'[k].id # i]_vars

C1_Witness ==
  /\ last # None
  /\ last[1].result = "errors"
  /\ last[1].error = "compile"
  /\ Len(stats) = 1

\* C2: no onLoad call propagates an exception to the host, whichever step
\* fails: reading the file, preprocessing or the compiler.
C2_NoLoadThrows ==
  \A i \in 1..Len(loads) : loads[i].result # "thrown"

\* the files of this pass that onLoad has processed successfully
ProcessedInPass ==
  { i \in 1..Len(loads) :
      loads[i].pc = "done" /\ loads[i].result = "contents" /\ loads[i].pass = passNo }

\* the step is the host's end event of the running pass
EndEvent == phase = "running" /\ phase' # "running" /\ passNo' = passNo

\* the step emits a progress line
EmitsLine == log'.lines = log.lines + 1

\* C3: onEnd emits the "done" progress line and the stats report if and only
\* if a progress line was emitted earlier in this pass or at least 2 files were
\* processed in it; otherwise it produces no output at all.
C3_EndReportsIff ==
  [][/\ EndEvent =>
          IF log.lines > 0 \/ Cardinality(ProcessedInPass) >= 2
          THEN EmitsLine /\ log'.line[1].done /\ phase' = "ending"
          ELSE log' = log /\ report' = None /\ phase' = "ended" /\ endResult' = "quiet"
     /\ phase' = "ended" =>
          \/ endResult' = "quiet" /\ report' = None /\ log'.lines = 0
          \/ endResult' = "logged" /\ report' # None /\ log'.line[1].done]_vars

C3_Witness ==
  /\ phase = "ended"
  /\ endResult = "logged"
  /\ log.lines = 1
  /\ Cardinality(ProcessedInPass) = 2

C3_WitnessQuiet ==
  /\ phase = "ended"
  /\ endResult = "quiet"
  /\ Cardinality(ProcessedInPass) = 1

\* C4: after every onStart, whatever came before, stats is empty,
\* lastProgressLog is 0 and bundleStart is the current time; a second onStart
\* right after the first leaves the same state.
C4_StartResets ==
  [][passNo' = passNo + 1 =>
       /\ stats' = <<>> /\ lastProgressLog' = 0 /\ bundleStart' = now'
       /\ (stats = <<>> /\ lastProgressLog = 0 /\ bundleStart = now /\ now' = now)
            => <<stats, lastProgressLog, bundleStart>>' = <<stats, lastProgressLog, bundleStart>>]_vars

\* a second pass has started after a pass that compiled a file and logged
\* progress at a later time
C4_Witness ==
  /\ passNo = 2
  /\ stats = <<>> /\ lastProgressLog = 0
  /\ bundleStart = now /\ now > progressDelay
  /\ last # None /\ last[1].result = "contents" /\ last[1].pass = 1

\* C5: a non-terminal progress line is emitted only by an onLoad call, and
\* only more than 2000ms after the start of the pass when it is the first line
\* of the pass, or more than 200ms after the previous line; the terminal call
\* of onEnd always emits.
C5_ProgressThrottled ==
  [][/\ (EmitsLine /\ ~log'.line[1].done) =>
          /\ Len(loads') = Len(loads) + 1
          /\ log'.line[1].ts = now'
          /\ IF log.lines = 0
             THEN now' - bundleStart > progressDelay
             ELSE now' - log.line[1].ts > progressThrottle
     /\ (EndEvent /\ phase' = "ending") => (EmitsLine /\ log'.line[1].done)]_vars

\* two non-terminal lines in one pass
C5_Witness ==
  /\ log.lines = 2
  /\ ~log.line[1].done
  /\ now - bundleStart = progressDelay + 1 + progressThrottle + 1

\* C6: with 'vite:dep-scan' among the host's plugins every load yields no
\* result: no file is read, the compiler is never invoked, stats stays empty
\* and the plugin emits no progress line and no report.
C6_ScanningDoesNothing ==
  "vite:dep-scan" \in hostPlugins =>
    /\ \A i \in 1..Len(loads) :
          /\ loads[i].pc = "done" /\ loads[i].result = "none"
          /\ ~loads[i].read /\ ~loads[i].compiler
    /\ stats = <<>>
    /\ log.lines = 0
    /\ report = None
    /\ endResult = "none"
    /\ lastProgressLog = 0

C6_Witness ==
  /\ "vite:dep-scan" \in hostPlugins
  /\ phase = "ended"
  /\ Len(loads) = 2
  /\ last # None /\ last[1].file = AppSvelte

\* the extensions of options.extensions, '.svelte' by default
ConfiguredExtensions ==
  IF options.extensions = None THEN {ExtSvelte}
  ELSE { options.extensions[1][i] : i \in 1..Len(options.extensions[1]) }

\* f ends in a configured extension, optionally followed by '?' and a query
EndsInExtension(f) ==
  \E e \in ConfiguredExtensions :
     \/ EndsWith(f, e)
     \/ \E q \in 1..Len(f) : f[q] = "?" /\ EndsWith(SubSeq(f, 1, q - 1), e)

\* C7: every FileStat in stats has a filename that ends in a configured
\* extension (optionally followed by a '?query'); a file whose extension is
\* not configured is never read, compiled or added to stats.
C7_OnlyComponentFiles ==
  /\ \A k \in 1..Len(stats) : EndsInExtension(stats[k].filename)
  /\ \A i \in 1..Len(loads) : loads[i].pc # "done" => EndsInExtension(loads[i].file)
  /\ (last # None /\ ~EndsInExtension(last[1].file)) =>
        /\ last[1].result = "none"
        /\ ~last[1].read /\ ~last[1].compiler
        /\ \A k \in 1..Len(stats) : stats[k].id # last[1].id

\* a '.svx' file is in stats and a '.SVELTE' file was passed over
C7_Witness ==
  /\ \E k \in 1..Len(stats) : stats[k].filename = CardSvx
  /\ last # None /\ last[1].file = UpperSvelte /\ last[1].result = "none"

\* the stat's file has no package.json above it
NoManifest(stat) == findClosestPkgJsonPath(stat.filename) = None

\* C8: when no package manifest is found for a processed file, onEnd still
\* completes without raising: the file is counted under an "unknown" row and
\* the report is logged.
C8_ManifestMissIsReported ==
  ( /\ phase = "ended"
    /\ endResult # "quiet"
    /\ \E k \in 1..Len(stats) : NoManifest(stats[k])
    /\ \A k \in 1..Len(stats) : NoManifest(stats[k]) \/ stats[k].packagename # Undefined )
  => /\ endResult = "logged"
     /\ report # None
     /\ \E r \in 2..Len(report[1].table) : report[1].table[r].library = "unknown"

\* the stats of package key name
StatsOfPackage(name) ==
  { k \in 1..Len(stats) : GroupKey(stats[k].packagename) = name }

RECURSIVE SumDurations(_)
SumDurations(S) ==
  IF S = {} THEN 0
  ELSE LET k == CHOOSE x \in S : TRUE
       IN duration(stats[k].timestamps, "compiled") + SumDurations(S \ {k})

RECURSIVE SumCounts(_)
SumCounts(groups) ==
  IF groups = <<>> THEN 0 ELSE groups[1].count + SumCounts(Tail(groups))

\* C9: the report has exactly one row per distinct package name; the row's
\* count is the number of stats of the package and its time the exact sum of
\* their duration(timestamps, 'compiled'), avg being time / count; the counts
\* sum to the number of stats; rows are ordered by non-increasing count.
C9_ReportGroups ==
  LET groups == SortGroups(Grouped(stats))
      names == { GroupKey(stats[k].packagename) : k \in 1..Len(stats) }
      lines == StatLines(groups)
  IN /\ Len(groups) = Cardinality(names)
     /\ \A name \in names :
          \E i \in 1..Len(groups) :
             /\ GroupKey(groups[i].name) = name
             /\ groups[i].count = Cardinality(StatsOfPackage(name))
             /\ groups[i].compileTime = SumDurations(StatsOfPackage(name))
             /\ lines[i + 1].files = Cardinality(StatsOfPackage(name))
             /\ lines[i + 1].time = humanDuration(SumDurations(StatsOfPackage(name)), 1)
             /\ lines[i + 1].avg = humanDuration(SumDurations(StatsOfPackage(name)),
                                                 Cardinality(StatsOfPackage(name)))
     /\ SumCounts(groups) = Len(stats)
     /\ \A i, j \in 1..Len(groups) : i < j => groups[i].count >= groups[j].count
     /\ report # None => report[1].groups = groups /\ report[1].table = lines

\* two files of package "a" after one of "b": the row of "a" comes first
C9_Witness ==
  /\ phase = "ended"
  /\ report # None
  /\ stats[1].packagename = "b"
  /\ Len(report[1].groups) = 2
  /\ report[1].groups[1] = [name |-> "a", count |-> 2, compileTime |-> 310]

\* the supported tags of the hook of call c
SupportedTags(c) ==
  IF c.hook = "style"
  THEN {"css", "less", "sass", "scss", "styl", "stylus", "postcss", "sss"}
  ELSE {"ts"}

\* C10 as stated: the tag alone decides the outcome; a supported tag gives a
\* call of the underlying transform and a result with code, any other tag
\* (or none) gives "no transformation" with no transform and no configuration
\* resolved.
C10_TagDecidesOutcome ==
  lastHook # None =>
    LET c == lastHook[1]
    IN IF c.lang \in SupportedTags(c)
       THEN c.transformed /\ c.result = "code"
       ELSE c.result = "undefined" /\ ~c.transformed /\ ~c.resolving

\* C10 amended: a tag outside the supported set (or none) gives "no
\* transformation" with no transform invoked and no configuration resolved;
\* a supported tag gives a call of the underlying transform and a result with
\* code unless resolveConfig or the transform throws, and then the hook
\* returns no result: the error propagates.
C10_TagDecidesPath ==
  /\ \A i \in 1..Len(hookCalls) :
        hookCalls[i].pc # "done" =>
          /\ hookCalls[i].lang \in SupportedTags(hookCalls[i])
          /\ hookCalls[i].transformed = (hookCalls[i].pc = "transform")
  /\ lastHook # None =>
       LET c == lastHook[1]
       IN IF c.lang \in SupportedTags(c)
          THEN /\ c.result \in {"code", "thrown"}
               /\ c.result = "code" => c.transformed
               /\ ~c.transformed => c.hook = "style" /\ c.resolving
          ELSE c.result = "undefined" /\ ~c.transformed /\ ~c.resolving

\* a style block tagged 'sss' was transformed after a block that was passed over
C10_Witness ==
  /\ lastHook # None
  /\ lastHook[1].hook = "style" /\ lastHook[1].lang = "sss"
  /\ lastHook[1].result = "code" /\ lastHook[1].transformed
  /\ Len(hookCalls) = 2 /\ hookCalls[1].result = "undefined"

\* the style calls whose transform has been invoked: those awaiting it and the
\* one that returned last
InvokedStyleCalls ==
  { hookCalls[i] : i \in { j \in 1..Len(hookCalls) :
                             hookCalls[j].hook = "style" /\ hookCalls[j].pc = "transform" } }
  \cup { [k \in DOMAIN lastHook[1] \ {"id"} |-> lastHook[1][k]] :
           x \in { y \in {1} : /\ lastHook # None
                                /\ lastHook[1].hook = "style"
                                /\ lastHook[1].transformed } }

\* C11: the CSS transform of a style block tagged L in file F is invoked with
\* the module id F + '.vite-preprocess.' + L, and the dependencies returned are
\* exactly the reported ones that do not end in '.vite-preprocess.' + L: none
\* ending in it is returned and no other is dropped.
C11_ModuleIdAndDependencies ==
  \A c \in InvokedStyleCalls :
     /\ c.lang \in supportedStyleLangs
     /\ c.moduleId = c.filename \o <<".vite-preprocess.", c.lang>>
     /\ (c.pc = "done" /\ c.result = "code" /\ c.deps # None) =>
          /\ c.dependencies # None
          /\ \A d \in c.dependencies[1] :
                d \in c.deps[1] /\ ~EndsWith(d, <<".vite-preprocess.", c.lang>>)
          /\ \A d \in c.deps[1] :
                ~EndsWith(d, <<".vite-preprocess.", c.lang>>) => d \in c.dependencies[1]

\* a 'scss' block whose transform reported the virtual module itself and a
\* partial; only the partial is returned
C11_Witness ==
  /\ lastHook # None
  /\ lastHook[1].hook = "style" /\ lastHook[1].lang = "scss"
  /\ lastHook[1].result = "code"
  /\ lastHook[1].moduleId = AppSvelte \o <<".vite-preprocess.", "scss">>
  /\ lastHook[1].deps = Some({VarsScss, lastHook[1].moduleId})
  /\ lastHook[1].dependencies = Some({VarsScss})

\* C12: on success the text returned for a file is the compiler's code, a line
\* break, '//# sourceMappingURL=' and the data URL of the map, so that the
\* source-map comment starts on a line of its own.
C12_MapCommentOnOwnLine ==
  (last # None /\ last[1].result = "contents") =>
    LET compiled == Compiled(last[1].file)
        k == Len(compiled.code)
    IN /\ last[1].contents =
            compiled.code \o <<"\n", "//# sourceMappingURL=">> \o compiled.mapUrl
       /\ last[1].contents[k + 1] = "\n"

\* C13: however the steps of concurrent onLoad calls interleave, stats holds
\* exactly one FileStat for each call that succeeded since the last start event
\* and none for a call that failed; the FileStat of the call that returned last
\* is the last one and carries the file and timestamps of that call.
C13_OneStatPerSuccess ==
  /\ { stats[k].id : k \in 1..Len(stats) } = ProcessedInPass
  /\ \A j, k \in 1..Len(stats) : stats[j].id = stats[k].id => j = k
  /\ \A i \in 1..Len(loads) :
        (loads[i].pc = "done" /\ loads[i].result # "contents") =>
           \A k \in 1..Len(stats) : stats[k].id # i
  /\ (last # None /\ last[1].result = "contents" /\ loads[last[1].id].pass = passNo) =>
        /\ stats[Len(stats)].id = last[1].id
        /\ stats[Len(stats)].filename = last[1].file
        /\ stats[Len(stats)].timestamps = last[1].timestamps

\* two overlapping loads of one pass, the second of which completed first
C13_Witness ==
  /\ passNo = 1
  /\ Len(loads) = 2 /\ \A i \in 1..2 : loads[i].pc = "done"
  /\ Len(stats) = 2
  /\ stats[1].id = 2 /\ stats[2].id = 1
  /\ stats[1].filename # stats[2].filename

\* C14: every FileStat in stats, also of loads that overlapped, has in its
\* timestamps a 'compileStart' event immediately followed by a 'compiled' event
\* that is not earlier; duration(timestamps, 'compiled') is defined for it and
\* is not negative.
C14_CompileStartThenCompiled ==
  \A k \in 1..Len(stats) :
     LET t == stats[k].timestamps
         toIndex == FindIndex(t, "compiled")
     IN /\ \E j \in 1..(Len(t) - 1) :
             /\ t[j].event = "compileStart" /\ t[j + 1].event = "compiled"
             /\ t[j].ts <= t[j + 1].ts
        /\ toIndex >= 2
        /\ t[toIndex - 1].event = "compileStart"
        /\ duration(t, "compiled") >= 0

\* two overlapping loads whose compiles took 60ms each: the first requested
\* was compiled first and pushed last
C14_Witness ==
  /\ Len(stats) = 2
  /\ stats[1].id = 2 /\ stats[2].id = 1
  /\ duration(stats[1].timestamps, "compiled") = 60
  /\ duration(stats[2].timestamps, "compiled") = 60
  /\ stats[1].timestamps[1].ts >= stats[2].timestamps[2].ts

\* the directory of the nearest package.json above file f; <<>> when none
NearestManifestDir(f) ==
  LET dirs == { d \in {<<"/", "pkgA", "/">>, <<"/", "pkgA", "/", "in", "/">>,
                        <<"/", "pkgB", "/">>} : StartsWith(f, d) }
  IN IF dirs = {} THEN <<>>
     ELSE CHOOSE d \in dirs : \A o \in dirs : Len(o) <= Len(d)

\* C15: while the report is made, at most one manifest lookup is started for
\* the files of one package directory (the lookups awaited plus those that
\* have filled the cache), and the cache never holds two entries for the same
\* directory.
C15_OneLookupPerPackage ==
  /\ \A i, j \in 1..Len(packages) : packages[i].path = packages[j].path => i = j
  /\ phase = "ending" =>
       \A d \in { NearestManifestDir(stats[k].filename) : k \in 1..Len(stats) } \ {<<>>} :
          Cardinality({ id \in pending : NearestManifestDir(StatOf(id).filename) = d })
            + Cardinality({ j \in 1..Len(packages) : packages[j].path = d }) <= 1

\* C16: every file of a report that has a manifest above it is counted under
\* the package named by its nearest manifest, also a file of a package nested
\* in the directory of another package whose files were resolved before it.
C16_NearestManifestWins ==
  report # None =>
    \A k \in 1..Len(report[1].of) :
       LET stat == report[1].of[k]
           d == NearestManifestDir(stat.filename)
       IN d # <<>> =>
            /\ stat.packagename = ManifestName[d]
            /\ \E g \in 1..Len(report[1].groups) :
                  /\ report[1].groups[g].name = ManifestName[d]
                  /\ report[1].groups[g].count =
                       Cardinality({ j \in 1..Len(report[1].of) :
                          NearestManifestDir(report[1].of[j].filename) = d })

\* a report of a file of package "a" and then a file of the package "in"
\* nested in it, the outer file resolved first
C16_Witness ==
  /\ report # None
  /\ Len(report[1].of) = 2
  /\ report[1].of[1].filename = AppSvelte /\ report[1].of[1].packagename = "a"
  /\ report[1].of[2].filename = InnerSvelte /\ report[1].of[2].packagename = "in"
  /\ packages[1].name = "a"

\* C17: over all the style calls of one preprocessor, also when first calls
\* overlap at await resolveConfig(...), the configuration is resolved at most
\* once and the transform function is created at most once.
C17_ConfigResolvedOnce ==
  /\ resolveCalls <= 1
  /\ transformsMade <= 1

\* C18: at every end event, every FileStat in stats is of a load requested
\* after the most recent start event, however load completions and start
\* events interleave.
C18_NoStatOfEarlierPass ==
  [][EndEvent => \A k \in 1..Len(stats) : stats[k].pass = passNo]_vars

\* C19: when the preprocess pipeline throws for a file, the error the call ends
\* with is the object that was thrown, its message starting with 'Error while
\* preprocessing ' and the file name; the dynamic-options hook and the compiler
\* were not invoked for the file and no timestamp was recorded.
C19_PreprocessErrorAnnotated ==
  (last # None /\ last[1].error = "preprocess") =>
    LET l == last[1]
        thrown == PreprocessError(l.file)
    IN /\ l.result = "errors"
       /\ l.preprocessError # None
       /\ l.preprocessError[1].ref = thrown.ref
       /\ StartsWith(l.preprocessError[1].message,
                     <<"Error while preprocessing ">> \o l.file)
       /\ ~l.hook /\ ~l.compiler
       /\ l.timestamps = <<>>

\* the preprocessor threw 'Unexpected token' for a file after another file
\* had been compiled
C19_Witness ==
  /\ last # None /\ last[1].error = "preprocess"
  /\ last[1].file = InnerSvelte
  /\ last[1].preprocessError[1].message =
       <<"Error while preprocessing ">> \o InnerSvelte \o <<" - ", "Unexpected token">>
  /\ Len(stats) = 1

\* the first entry of t labelled e; 0 when there is none
FirstLabelled(t, e) ==
  LET at == { i \in 1..Len(t) : t[i].event = e }
  IN IF at = {} THEN 0 ELSE CHOOSE i \in at : \A j \in at : i <= j

\* C20: duration(timestamps, to, from) returns the time of the first event
\* labelled to minus the time of the first event labelled from when from is
\* given, and minus the time of the entry just before the to-event when from
\* is omitted; on [{compileStart, t0}, {compiled, t1}] with t1 >= t0,
\* duration(timestamps, 'compiled') returns t1 - t0.
C20_DurationBetweenEvents ==
  (durationCall # None /\ durationCall[1].pc # "called") =>
    LET c == durationCall[1]
        t == c.timestamps
        toAt == FirstLabelled(t, c.to)
    IN /\ c.pc = "returned" =>
            /\ toAt > 0
            /\ IF c.from # Undefined
               THEN /\ FirstLabelled(t, c.from) > 0
                    /\ c.result = t[toAt].ts - t[FirstLabelled(t, c.from)].ts
               ELSE /\ toAt > 1
                    /\ c.result = t[toAt].ts - t[toAt - 1].ts
       /\ ( /\ Len(t) = 2 /\ t[1].event = "compileStart" /\ t[2].event = "compiled"
            /\ t[2].ts >= t[1].ts /\ c.to = "compiled" /\ c.from = Undefined ) =>
            /\ c.pc = "returned"
            /\ c.result = t[2].ts - t[1].ts
            /\ c.result >= 0

\* three events, 'compiled' last and 'from' omitted: the entry before it counts
C20_Witness ==
  /\ durationCall # None /\ durationCall[1].pc = "returned"
  /\ durationCall[1].timestamps =
       <<[event |-> "preprocessed", ts |-> 0], [event |-> "compileStart", ts |-> 5],
         [event |-> "compiled", ts |-> 5]>>
  /\ durationCall[1].to = "compiled" /\ durationCall[1].from = Undefined
  /\ durationCall[1].result = 0

====
